---- MODULE Spec2Model ----
(***************************************************************************)
(* System-registration service (server.js): the create workflow            *)
(* POST /sys/admin (existence check, registration, persistence), the       *)
(* destroy workflow DELETE /sys/admin and the error-handling middleware.   *)
(*                                                                         *)
(* Texts (messages, urls, identifiers) are sequences of string pieces, so  *)
(* that a template literal is a concatenation.  Values that come from the  *)
(* network are JavaScript values: records tagged by their type.            *)
(***************************************************************************)
EXTENDS Naturals, Sequences, FiniteSets, TLC

\* Number of create requests and of destroy requests the service receives.
NumCreate == 2
NumDestroy == 1

CreateReqs == 1..NumCreate
DestroyReqs == 1..NumDestroy

-----------------------------------------------------------------------------
(* JavaScript values *)

Undef == [t |-> "undefined"]
Null == [t |-> "null"]
\* a string, its text a sequence of pieces; the piece "-" is a hyphen
Str(text) == [t |-> "string", v |-> text]
\* a number, by its decimal text
Num(digits) == [t |-> "number", v |-> <<digits>>]
Obj(f) == [t |-> "object", f |-> f]

\* x is undefined or null: reading a property of x throws a TypeError
Nullish(x) == x.t \in {"undefined", "null"}

\* x.k, for x not nullish
Get(x, k) == IF x.t = "object" /\ k \in DOMAIN x.f THEN x.f[k] ELSE Undef

\* x?.k
OptGet(x, k) == IF Nullish(x) THEN Undef ELSE Get(x, k)

\* x.k = v, for an object x
Set(x, k, v) == Obj([j \in DOMAIN x.f \cup {k} |-> IF j = k THEN v ELSE x.f[j]])

\* a === b
StrictEq(a, b) == a.t # "object" /\ a = b

\* x in a condition
Truthy(x) == ~Nullish(x) /\ x # Str(<<>>)

\* ${x} in a template literal
ToText(x) ==
    IF x.t \in {"string", "number"} THEN x.v
    ELSE IF x.t = "object" THEN <<"[object Object]">>
    ELSE <<x.t>>

\* the TypeError of reading property k of a nullish x
TypeError(x, k) ==
    [name |-> "TypeError",
     message |-> <<"Cannot read properties of ", x.t, " (reading '", k, "')">>,
     httpStatus |-> Undef,
     response |-> Undef]

\* new Error(message)
NewError(message) ==
    [name |-> "Error", message |-> message, httpStatus |-> Undef, response |-> Undef]

\* new BadRequestError(message)
BadRequestError(message) ==
    [name |-> "BadRequestError", message |-> message, httpStatus |-> Num("400"),
     response |-> Undef]

\* a settled promise
Fulfilled(value) == [state |-> "fulfilled", value |-> value]
Rejected(reason) == [state |-> "rejected", reason |-> reason]

\* what axios settles a call with: a response, or an error with or without one
Response(status, data) == Obj([status |-> Num(status), data |-> data])
AxiosError(status, data) ==
    [name |-> "Error",
     message |-> <<"Request failed with status code ", status>>,
     httpStatus |-> Undef,
     response |-> Response(status, data)]
NetworkError ==
    [name |-> "Error", message |-> <<"connect ECONNREFUSED">>, httpStatus |-> Undef,
     response |-> Undef]

\* a downstream call as issued through axios
Call(method, url, body) == [method |-> method, url |-> url, body |-> body]

\* a logger call
LogEntry(level, text) == [level |-> level, text |-> text]

\* what the caller is sent: res.status(s).send(text), res.status(s).json({error: text})
Send(status, text) == [status |-> status, json |-> FALSE, text |-> text]
Json(status, text) == [status |-> status, json |-> TRUE, text |-> text]

-----------------------------------------------------------------------------
(* Configuration *)

userURL == <<"{userBase}">>
tenantURL == <<"{tenantBase}">>
registerTenantUserURL == userURL \o <<"/system">>
deleteInfraUrl == userURL \o <<"/tenants">>
deleteTableUrl == userURL \o <<"/tables">>

-----------------------------------------------------------------------------
(* Inputs: request bodies and generated uuids *)

UserNames == {"alice", "bob"}

\* the JSON body of a POST /sys/admin request for user u
Body(u) ==
    Obj([companyName |-> Str(<<u, ".company">>),
         accountName |-> Str(<<u, ".account">>),
         ownerName |-> Str(<<u, ".owner">>),
         tier |-> Str(<<u, ".tier">>),
         email |-> Str(<<u, ".email">>),
         userName |-> Str(<<u>>),
         role |-> Str(<<u, ".role">>),
         firstName |-> Str(<<u, ".first">>),
         lastName |-> Str(<<u, ".last">>)])

Bodies == {Body(u) : u \in UserNames}

\* what uuidV4() may return
Uuids ==
    {<<"1b9d6bcd", "-", "bbfd", "-", "4b2d", "-", "9b5d", "-", "ab8dfbbd4bed">>,
     <<"9c858901", "-", "8a57", "-", "4791", "-", "81fe", "-", "4c455b099bc9">>}

\* text.replace('-', ''): only the first hyphen goes
StripFirstHyphen(text) ==
    IF \E i \in 1..Len(text) : text[i] = "-"
    THEN LET first == CHOOSE i \in 1..Len(text) :
                          text[i] = "-" /\ \A j \in 1..(i - 1) : text[j] # "-"
         IN  SubSeq(text, 1, first - 1) \o SubSeq(text, first + 1, Len(text))
    ELSE text

\* text.split('-').join('')
StripHyphens(text) == SelectSeq(text, LAMBDA piece : piece # "-")

-----------------------------------------------------------------------------
(* The existence check *)

\* the url of the existence check
PoolUrl(tenant) == userURL \o <<"/pool/">> \o ToText(Get(tenant, "userName"))

\* a then-callback that refuses whenever the response names any user
verifyThenRefusesAnyUser(tenant, res) ==
    LET data == Get(res, "data") IN
    IF Nullish(data) THEN Rejected(TypeError(data, "userName"))
    ELSE IF Get(data, "userName") # Undef
    THEN Rejected(BadRequestError(
             <<"Admin user ">> \o ToText(Get(tenant, "userName")) \o <<" already exists">>))
    ELSE Fulfilled(Undef)

\* the then-callback of the existence check
verifyThen(tenant, res) ==
    LET data == Get(res, "data") IN
    IF Nullish(data) THEN Rejected(TypeError(data, "userName"))
    ELSE IF StrictEq(Get(data, "userName"), Get(tenant, "userName"))
    THEN Rejected(BadRequestError(
             <<"Admin user ">> \o ToText(Get(tenant, "userName")) \o <<" already exists">>))
    ELSE Fulfilled(Undef)

\* a catch-callback that never recognises "User not found"
verifyCatchNoHappyPath(tenant, err) ==
    IF Truthy(OptGet(err.response, "data"))
    THEN Rejected(NewError(
             <<"Failed to check if tenant ">> \o ToText(Get(tenant, "userName"))
             \o <<" exists. Status: ">> \o ToText(Get(err.response, "status"))
             \o <<" Body: ">> \o ToText(Get(err.response, "body"))))
    ELSE Rejected(NewError(
             <<"Failed to check if tenant ">> \o ToText(Get(tenant, "userName"))
             \o <<" exists. Error: ">> \o err.message))

\* a catch-callback that swallows whatever reaches it
verifyCatchSwallowsAll(tenant, err) == Fulfilled(Undef)

\* the catch-callback of the existence check; it follows the then-callback in
\* the chain, so it also receives what the then-callback throws
verifyCatch(tenant, err) ==
    LET data == OptGet(err.response, "data") IN
    IF StrictEq(OptGet(data, "Error"), Str(<<"User not found">>))
    THEN Fulfilled(Undef)
    ELSE IF Truthy(data)
    THEN Rejected(NewError(
             <<"Failed to check if tenant ">> \o ToText(Get(tenant, "userName"))
             \o <<" exists. Status: ">> \o ToText(Get(err.response, "status"))
             \o <<" Body: ">> \o ToText(Get(err.response, "body"))))
    ELSE Rejected(NewError(
             <<"Failed to check if tenant ">> \o ToText(Get(tenant, "userName"))
             \o <<" exists. Error: ">> \o err.message))

\* the promise verifyUserDoesntExist returns, once axios.get has settled
verifyUserDoesntExist(tenant, settled) ==
    LET afterThen ==
            IF settled.state = "fulfilled" THEN verifyThen(tenant, settled.value)
            ELSE settled
    IN  IF afterThen.state = "rejected" THEN verifyCatch(tenant, afterThen.reason)
        ELSE afterThen

-----------------------------------------------------------------------------
(* Registration *)

\* a registration call that names the tenant by its userName
RegisterBodyNamesUser(tenant) ==
    Obj([tenant_id |-> Get(tenant, "userName"),
         companyName |-> Get(tenant, "companyName"),
         accountName |-> Get(tenant, "accountName"),
         ownerName |-> Get(tenant, "ownerName"),
         tier |-> Get(tenant, "tier"),
         email |-> Get(tenant, "email"),
         userName |-> Get(tenant, "userName"),
         role |-> Get(tenant, "role"),
         firstName |-> Get(tenant, "firstName"),
         lastName |-> Get(tenant, "lastName")])

\* the body of the registration call
RegisterBody(tenant) ==
    Obj([tenant_id |-> Get(tenant, "id"),
         companyName |-> Get(tenant, "companyName"),
         accountName |-> Get(tenant, "accountName"),
         ownerName |-> Get(tenant, "ownerName"),
         tier |-> Get(tenant, "tier"),
         email |-> Get(tenant, "email"),
         userName |-> Get(tenant, "userName"),
         role |-> Get(tenant, "role"),
         firstName |-> Get(tenant, "firstName"),
         lastName |-> Get(tenant, "lastName")])

\* a callback that threw err after changing the tenant object to tenant
Threw(tenant, err) == [tenant |-> tenant, result |-> Rejected(err)]

\* the then-callback of the registration call: the tenant object as it leaves
\* it, and what it returns or throws
registerThen(tenant, res) ==
    LET data == Get(res, "data") IN
    IF Nullish(data) THEN Threw(tenant, TypeError(data, "pool")) ELSE
    LET pool == Get(data, "pool")
        identityPool == Get(data, "identityPool")
        role == Get(data, "role")
        policy == Get(data, "policy")
    IN
    IF Nullish(pool) THEN Threw(tenant, TypeError(pool, "UserPool")) ELSE
    IF Nullish(Get(pool, "UserPool"))
    THEN Threw(tenant, TypeError(Get(pool, "UserPool"), "Id")) ELSE
    LET t1 == Set(tenant, "UserPoolId", Get(Get(pool, "UserPool"), "Id")) IN
    IF Nullish(identityPool) THEN Threw(t1, TypeError(identityPool, "IdentityPoolId")) ELSE
    LET t2 == Set(t1, "IdentityPoolId", Get(identityPool, "IdentityPoolId")) IN
    IF Nullish(role) THEN Threw(t2, TypeError(role, "systemAdminRole")) ELSE
    LET t3 == Set(Set(Set(t2, "systemAdminRole", Get(role, "systemAdminRole")),
                      "systemSupportRole", Get(role, "systemSupportRole")),
                  "trustRole", Get(role, "trustRole"))
    IN
    IF Nullish(policy) THEN Threw(t3, TypeError(policy, "systemAdminPolicy")) ELSE
    LET t4 == Set(Set(t3, "systemAdminPolicy", Get(policy, "systemAdminPolicy")),
                  "systemSupportPolicy", Get(policy, "systemSupportPolicy"))
    IN  [tenant |-> t4, result |-> Fulfilled(t4)]

\* a catch-callback that rethrows the error as it is
registerCatchUnwrapped(err) == Rejected(err)

\* the catch-callback of the registration call
registerCatch(err) ==
    Rejected(NewError(<<"Error registering new system admin user: ">> \o err.message))

\* a registration whose catch-callback swallows the error and hands the tenant on
registerTenantAdminSwallows(tenant, settled) ==
    LET afterThen ==
            IF settled.state = "fulfilled" THEN registerThen(tenant, settled.value)
            ELSE [tenant |-> tenant, result |-> settled]
    IN  [tenant |-> afterThen.tenant, result |-> Fulfilled(afterThen.tenant)]

\* the promise registerTenantAdmin returns, once axios.post has settled, and
\* the tenant object as the callbacks leave it
registerTenantAdmin(tenant, settled) ==
    LET afterThen ==
            IF settled.state = "fulfilled" THEN registerThen(tenant, settled.value)
            ELSE [tenant |-> tenant, result |-> settled]
    IN  IF afterThen.result.state = "rejected"
        THEN [tenant |-> afterThen.tenant, result |-> registerCatch(afterThen.result.reason)]
        ELSE afterThen

-----------------------------------------------------------------------------
(* Persistence *)

\* a record with the support policy taken from the admin policy
SaveBodySwapped(tenant) ==
    Obj([id |-> Get(tenant, "id"),
         companyName |-> Get(tenant, "companyName"),
         accountName |-> Get(tenant, "accountName"),
         ownerName |-> Get(tenant, "ownerName"),
         tier |-> Get(tenant, "tier"),
         email |-> Get(tenant, "email"),
         status |-> Str(<<"Active">>),
         UserPoolId |-> Get(tenant, "UserPoolId"),
         IdentityPoolId |-> Get(tenant, "IdentityPoolId"),
         systemAdminRole |-> Get(tenant, "systemAdminRole"),
         systemSupportRole |-> Get(tenant, "systemSupportRole"),
         trustRole |-> Get(tenant, "trustRole"),
         systemAdminPolicy |-> Get(tenant, "systemAdminPolicy"),
         systemSupportPolicy |-> Get(tenant, "systemAdminPolicy"),
         userName |-> Get(tenant, "userName")])

\* the record submitted to the tenant-management service
SaveBody(tenant) ==
    Obj([id |-> Get(tenant, "id"),
         companyName |-> Get(tenant, "companyName"),
         accountName |-> Get(tenant, "accountName"),
         ownerName |-> Get(tenant, "ownerName"),
         tier |-> Get(tenant, "tier"),
         email |-> Get(tenant, "email"),
         status |-> Str(<<"Active">>),
         UserPoolId |-> Get(tenant, "UserPoolId"),
         IdentityPoolId |-> Get(tenant, "IdentityPoolId"),
         systemAdminRole |-> Get(tenant, "systemAdminRole"),
         systemSupportRole |-> Get(tenant, "systemSupportRole"),
         trustRole |-> Get(tenant, "trustRole"),
         systemAdminPolicy |-> Get(tenant, "systemAdminPolicy"),
         systemSupportPolicy |-> Get(tenant, "systemSupportPolicy"),
         userName |-> Get(tenant, "userName")])

\* a persistence whose catch-callback swallows the error
saveTenantDataSwallows(settled) == Fulfilled(Undef)

\* the promise saveTenantData returns, once axios.post has settled
saveTenantData(settled) ==
    IF settled.state = "rejected"
    THEN Rejected(NewError(<<"Failed to save tenant data.  Error: ">> \o settled.reason.message))
    ELSE settled

-----------------------------------------------------------------------------
(* The error-handling middleware *)

\* a middleware that sends every error's message to the caller
ErrorMiddlewareLeaks(err) ==
    [sent |-> <<Json(<<"400">>, err.message)>>, log |-> <<>>]

\* what next(err) sends to the caller and logs
ErrorMiddleware(err) ==
    IF err.name = "BadRequestError"
    THEN [sent |-> <<Json(ToText(err.httpStatus), err.message)>>, log |-> <<>>]
    ELSE [sent |-> <<Send(<<"500">>, <<"Server Error">>)>>,
          log |-> <<LogEntry("error", <<err.name, ": ">> \o err.message)>>]

-----------------------------------------------------------------------------
(* The destroy workflow *)

\* a deleteInfra whose catch-callback logs and rethrows
deleteInfraRethrows(settled) ==
    IF settled.state = "fulfilled"
    THEN [result |-> Fulfilled(Undef),
          log |-> <<LogEntry("info", <<"Removed Infrastructure">>)>>]
    ELSE [result |-> settled,
          log |-> <<LogEntry("info", <<"Error Removing Infrastructure: ">>
                                       \o settled.reason.message)>>]

\* the promise deleteInfra returns, once axios.delete has settled, and what
\* its callbacks log
deleteInfra(settled) ==
    IF settled.state = "fulfilled"
    THEN [result |-> Fulfilled(Undef),
          log |-> <<LogEntry("info", <<"Removed Infrastructure">>)>>]
    ELSE [result |-> Fulfilled(Undef),
          log |-> <<LogEntry("info", <<"Error Removing Infrastructure: ">>
                                       \o settled.reason.message)>>]

\* the first then-callback with the call of deleteTables() in place
deleteInfraThenDeletesTables == <<Call("DELETE", deleteTableUrl, Undef)>>

\* the downstream calls the first then-callback of DELETE /sys/admin issues:
\* the call of deleteTables() is commented out
deleteInfraThenCalls == <<>>

\* what the chain of DELETE /sys/admin does once deleteInfra() has settled:
\* the calls it issues, what it sends and what it logs
destroyChain(p) ==
    IF p.state = "fulfilled"
    THEN [calls |-> deleteInfraThenCalls,
          sent |-> <<Send(<<"200">>, <<"System Infrastructure & Tables removed">>)>>,
          log |-> <<LogEntry("debug", <<"Delete Infra">>),
                    LogEntry("debug", <<"System Infrastructure & Tables removed">>)>>]
    ELSE [calls |-> <<>>,
          sent |-> <<Send(<<"400">>, <<" Error removing system">>)>>,
          log |-> <<LogEntry("error", <<"Error removing system">>)>>]

-----------------------------------------------------------------------------
(* What the downstream services may answer *)

\* not settled yet
Pending == [state |-> "pending"]

\* f without the key k
Without(f, k) == [j \in DOMAIN f \ {k} |-> f[j]]
\* f with v at the key k
With(f, k, v) == [j \in DOMAIN f \cup {k} |-> IF j = k THEN v ELSE f[j]]

\* GET {userBase}/pool/{userName}
CheckAnswers ==
    {Fulfilled(Response("200", Obj([userName |-> Str(<<u>>)]))) : u \in UserNames}
    \cup {Fulfilled(Response("200", Null)),
          Fulfilled(Response("200", Str(<<>>))),
          Rejected(AxiosError("404", Obj([Error |-> Str(<<"User not found">>)]))),
          Rejected(AxiosError("500", Obj([Error |-> Str(<<"Lookup failed">>)]))),
          Rejected(AxiosError("502", Str(<<>>))),
          Rejected(NetworkError)}

\* the data of a complete registration response
FullPool == [UserPool |-> Obj([Id |-> Str(<<"P1">>)])]
FullIdentityPool == [IdentityPoolId |-> Str(<<"I1">>)]
FullRole ==
    [systemAdminRole |-> Str(<<"R1">>), systemSupportRole |-> Str(<<"R2">>),
     trustRole |-> Str(<<"R3">>)]
FullPolicy ==
    [systemAdminPolicy |-> Str(<<"PO1">>), systemSupportPolicy |-> Str(<<"PO2">>)]
FullData ==
    [pool |-> Obj(FullPool), identityPool |-> Obj(FullIdentityPool),
     role |-> Obj(FullRole), policy |-> Obj(FullPolicy)]

\* registration data with one nested object missing, null or not an object
DataWithoutNested ==
    {Without(FullData, k) : k \in DOMAIN FullData}
    \cup {With(FullData, k, v) : k \in DOMAIN FullData, v \in {Null, Str(<<"none">>)}}
    \cup {With(FullData, "pool", Obj(p)) :
            p \in {Without(FullPool, "UserPool"),
                   With(FullPool, "UserPool", Str(<<"none">>))}}

\* registration data with one infrastructure field missing
DataWithoutField ==
    {With(FullData, "pool", Obj([UserPool |-> Obj([Name |-> Str(<<"pool">>)])])),
     With(FullData, "identityPool", Obj([Name |-> Str(<<"identities">>)]))}
    \cup {With(FullData, "role", Obj(Without(FullRole, k))) : k \in DOMAIN FullRole}
    \cup {With(FullData, "policy", Obj(Without(FullPolicy, k))) : k \in DOMAIN FullPolicy}

\* POST {userBase}/system
RegisterAnswers ==
    {Fulfilled(Response("200", Obj(d))) :
        d \in {FullData} \cup DataWithoutNested \cup DataWithoutField}
    \cup {Fulfilled(Response("200", Null)),
          Fulfilled(Response("200", Str(<<"OK">>))),
          Rejected(AxiosError("500", Obj([Error |-> Str(<<"Provisioning failed">>)]))),
          Rejected(NetworkError)}

\* POST {tenantBase}
SaveAnswers ==
    {Fulfilled(Response("200", Obj([status |-> Str(<<"success">>)]))),
     Rejected(AxiosError("500", Obj([Error |-> Str(<<"Save failed">>)]))),
     Rejected(NetworkError)}

\* DELETE {userBase}/tenants
DeleteAnswers ==
    {Fulfilled(Response("200", Obj([status |-> Str(<<"success">>)]))),
     Rejected(AxiosError("500", Obj([Error |-> Str(<<"Delete failed">>)]))),
     Rejected(NetworkError)}

-----------------------------------------------------------------------------
(* State *)

VARIABLES
    create,    \* create[r]: the POST /sys/admin request r: where its chain stands,
               \* the body and uuid it started from, the tenant object, what each
               \* downstream call settled with, the calls issued, what was sent
               \* to the caller and what was logged
    destroy,   \* destroy[d]: the DELETE /sys/admin request d
    silent,    \* the downstream services that have stopped answering: a call to
               \* one of them stays pending (axios is created without a timeout)
    health     \* the latest GET /sys/health request: what was sent, the calls issued

vars == <<create, destroy, silent, health>>

\* the downstream services
Services == {"user", "tenant"}

\* a call to service s settles: with an answer or with a transport error
Answers(s) == s \notin silent

Init ==
    /\ create = [r \in CreateReqs |->
                    [pc |-> "idle", body |-> Undef, uuid |-> <<>>, tenant |-> Undef,
                     checked |-> Pending, registered |-> Pending, saved |-> Pending,
                     calls |-> <<>>, sent |-> <<>>, log |-> <<>>]]
    /\ destroy = [d \in DestroyReqs |->
                    [pc |-> "idle", deleted |-> Pending,
                     calls |-> <<>>, sent |-> <<>>, log |-> <<>>]]
    /\ silent = {}
    /\ health = [sent |-> <<>>, calls |-> <<>>]

\* an error path that answers the caller and then passes the error on to the
\* middleware, which answers again
FailAnswersTwice(c, err) ==
    LET m == ErrorMiddleware(err) IN
    [c EXCEPT !.pc = "done", !.sent = @ \o m.sent \o m.sent, !.log = @ \o m.log]

\* the catch of the create chain: next(err), handled by the error middleware
Fail(c, err) ==
    LET m == ErrorMiddleware(err) IN
    [c EXCEPT !.pc = "done", !.sent = @ \o m.sent, !.log = @ \o m.log]

\* a handler that does not chain its calls: the registration is issued
\* together with the existence check
PostSysAdminUnchained(r, body, uuid) ==
    /\ create[r].pc = "idle"
    /\ LET tenant == Set(body, "id", Str(StripHyphens(<<"SYSADMIN">> \o uuid))) IN
       create' = [create EXCEPT ![r] =
           [@ EXCEPT !.pc = "verify",
                     !.body = body,
                     !.uuid = uuid,
                     !.tenant = tenant,
                     !.calls = <<Call("GET", PoolUrl(tenant), Undef),
                                 Call("POST", registerTenantUserURL, RegisterBody(tenant))>>]]
    /\ UNCHANGED <<destroy, silent, health>>

\* POST /sys/admin arrives: the id is generated and the existence check issued
PostSysAdmin(r, body, uuid) ==
    /\ create[r].pc = "idle"
    /\ LET tenant == Set(body, "id", Str(StripHyphens(<<"SYSADMIN">> \o uuid))) IN
       create' = [create EXCEPT ![r] =
           [@ EXCEPT !.pc = "verify",
                     !.body = body,
                     !.uuid = uuid,
                     !.tenant = tenant,
                     !.log = @ \o <<LogEntry("debug", <<"Creating system admin user, tenant id: ",
                                                        "SYSADMIN">> \o uuid),
                                    LogEntry("debug", <<"Checking tenant exists: ">>
                                                      \o ToText(Get(tenant, "userName")))>>,
                     !.calls = Append(@, Call("GET", PoolUrl(tenant), Undef))]]
    /\ UNCHANGED <<destroy, silent, health>>

\* an existence check that also refuses a userName for which another request
\* has a registration in flight
VerifySettledDeduplicates(r, settled) ==
    /\ create[r].pc = "verify"
    /\ Answers("user")
    /\ LET c == [create[r] EXCEPT !.checked = settled]
           p == verifyUserDoesntExist(c.tenant, settled)
           taken == \E o \in CreateReqs \ {r} :
                        /\ create[o].pc = "register"
                        /\ Get(create[o].tenant, "userName") = Get(c.tenant, "userName")
       IN  create' = [create EXCEPT ![r] =
               IF p.state = "fulfilled" /\ ~taken
               THEN [c EXCEPT !.pc = "register",
                              !.log = Append(@, LogEntry("debug", <<"Registering tenant admin: ">>
                                                         \o ToText(Get(c.tenant, "userName")))),
                              !.calls = Append(@, Call("POST", registerTenantUserURL,
                                                       RegisterBody(c.tenant)))]
               ELSE Fail(c, IF taken THEN NewError(<<"Registration in progress">>)
                                     ELSE p.reason)]
    /\ UNCHANGED <<destroy, silent, health>>

\* an existence check whose chain reads the tenant from a variable shared by
\* the requests, which holds the tenant of the last of the requests in flight
VerifySettledSharedTenant(r, settled) ==
    /\ create[r].pc = "verify"
    /\ Answers("user")
    /\ LET c == [create[r] EXCEPT !.checked = settled]
           p == verifyUserDoesntExist(c.tenant, settled)
           last == CHOOSE o \in CreateReqs :
                       /\ create[o].pc # "idle"
                       /\ \A q \in CreateReqs : create[q].pc # "idle" => q <= o
           shared == create[last].tenant
       IN  create' = [create EXCEPT ![r] =
               IF p.state = "fulfilled"
               THEN [c EXCEPT !.pc = "register",
                              !.log = Append(@, LogEntry("debug", <<"Registering tenant admin: ">>
                                                         \o ToText(Get(shared, "userName")))),
                              !.calls = Append(@, Call("POST", registerTenantUserURL,
                                                       RegisterBody(shared)))]
               ELSE Fail(c, p.reason)]
    /\ UNCHANGED <<destroy, silent, health>>

\* the existence check settles; on success the registration call is issued
VerifySettled(r, settled) ==
    /\ create[r].pc = "verify"
    /\ Answers("user")
    /\ LET c == [create[r] EXCEPT !.checked = settled]
           p == verifyUserDoesntExist(c.tenant, settled)
       IN  create' = [create EXCEPT ![r] =
               IF p.state = "fulfilled"
               THEN [c EXCEPT !.pc = "register",
                              !.log = Append(@, LogEntry("debug", <<"Registering tenant admin: ">>
                                                         \o ToText(Get(c.tenant, "userName")))),
                              !.calls = Append(@, Call("POST", registerTenantUserURL,
                                                       RegisterBody(c.tenant)))]
               ELSE Fail(c, p.reason)]
    /\ UNCHANGED <<destroy, silent, health>>

\* the registration call settles; on success the persistence call is issued
RegisterSettled(r, settled) ==
    /\ create[r].pc = "register"
    /\ Answers("user")
    /\ LET q == registerTenantAdmin(create[r].tenant, settled)
           c == [create[r] EXCEPT !.registered = settled, !.tenant = q.tenant]
       IN  create' = [create EXCEPT ![r] =
               IF q.result.state = "fulfilled"
               THEN [c EXCEPT !.pc = "save",
                              !.log = Append(@, LogEntry("info", <<"saveTenantData saving ">>
                                                         \o ToText(Get(q.result.value, "id")))),
                              !.calls = Append(@, Call("POST", tenantURL,
                                                       SaveBody(q.result.value)))]
               ELSE Fail(c, q.result.reason)]
    /\ UNCHANGED <<destroy, silent, health>>

\* the persistence call settles; on success the caller is sent 200
SaveSettled(r, settled) ==
    /\ create[r].pc = "save"
    /\ Answers("tenant")
    /\ LET c == [create[r] EXCEPT !.saved = settled]
           p == saveTenantData(settled)
       IN  create' = [create EXCEPT ![r] =
               IF p.state = "fulfilled"
               THEN [c EXCEPT !.pc = "done",
                              !.sent = Append(@, Send(<<"200">>,
                                  <<"System admin user ">> \o ToText(Get(c.tenant, "id"))
                                  \o <<" registered">>))]
               ELSE Fail(c, p.reason)]
    /\ UNCHANGED <<destroy, silent, health>>

\* DELETE /sys/admin arrives: the infrastructure deletion is issued
DeleteSysAdmin(d) ==
    /\ destroy[d].pc = "idle"
    /\ destroy' = [destroy EXCEPT ![d] =
           [@ EXCEPT !.pc = "deleteInfra",
                     !.calls = Append(@, Call("DELETE", deleteInfraUrl, Undef))]]
    /\ UNCHANGED <<create, silent, health>>

\* the infrastructure deletion settles and the rest of the chain runs
DeleteInfraSettled(d, settled) ==
    /\ destroy[d].pc = "deleteInfra"
    /\ Answers("user")
    /\ LET p == deleteInfra(settled)
           h == destroyChain(p.result)
       IN  destroy' = [destroy EXCEPT ![d] =
               [@ EXCEPT !.pc = "done",
                         !.deleted = settled,
                         !.calls = @ \o h.calls,
                         !.sent = @ \o h.sent,
                         !.log = @ \o p.log \o h.log]]
    /\ UNCHANGED <<create, silent, health>>

\* the downstream service s stops answering, for good
Silence(s) ==
    /\ s \notin silent
    /\ silent' = silent \cup {s}
    /\ UNCHANGED <<create, destroy, health>>

\* true
True == [t |-> "boolean", v |-> <<"true">>]

\* res.status(s).send(object)
SendObject(status, object) == [status |-> status, json |-> TRUE, body |-> object]

\* GET /sys/health arrives and is answered
\* a health check that reports what the requests met downstream
GetSysHealthReportsFailures ==
    /\ health' =
           IF \/ \E r \in CreateReqs : create[r].sent = <<Send(<<"500">>, <<"Server Error">>)>>
              \/ \E d \in DestroyReqs : destroy[d].sent # <<>> /\ destroy[d].sent[1].status = <<"400">>
           THEN [sent |-> <<SendObject(<<"500">>,
                                Obj([service |-> Str(<<"System Registration">>)]))>>,
                 calls |-> <<>>]
           ELSE [sent |-> <<SendObject(<<"200">>,
                                Obj([service |-> Str(<<"System Registration">>),
                                     isAlive |-> True]))>>,
                 calls |-> <<>>]
    /\ UNCHANGED <<create, destroy, silent>>

GetSysHealth ==
    /\ health' = [sent |-> <<SendObject(<<"200">>,
                                Obj([service |-> Str(<<"System Registration">>),
                                     isAlive |-> True]))>>,
                  calls |-> <<>>]
    /\ UNCHANGED <<create, destroy, silent>>

\* the answers drawn when several requests are in flight together
SomeRegisterAnswers ==
    {Fulfilled(Response("200", Obj(FullData))),
     Rejected(AxiosError("500", Obj([Error |-> Str(<<"Provisioning failed">>)])))}
SomeSaveAnswers ==
    {Fulfilled(Response("200", Obj([status |-> Str(<<"success">>)]))),
     Rejected(AxiosError("500", Obj([Error |-> Str(<<"Save failed">>)])))}

\* the service with its requests in flight together
Next ==
    \/ \E r \in CreateReqs, body \in Bodies, uuid \in Uuids : PostSysAdmin(r, body, uuid)
    \/ \E r \in CreateReqs, settled \in CheckAnswers : VerifySettled(r, settled)
    \/ \E r \in CreateReqs, settled \in SomeRegisterAnswers : RegisterSettled(r, settled)
    \/ \E r \in CreateReqs, settled \in SomeSaveAnswers : SaveSettled(r, settled)
    \/ \E d \in DestroyReqs : DeleteSysAdmin(d)
    \/ \E d \in DestroyReqs, settled \in DeleteAnswers : DeleteInfraSettled(d, settled)

Spec == Init /\ [][Next]_vars

\* one create request against every answer of the downstream services
NextAnswers ==
    \/ \E body \in Bodies, uuid \in Uuids : PostSysAdmin(1, body, uuid)
    \/ \E settled \in CheckAnswers : VerifySettled(1, settled)
    \/ \E settled \in RegisterAnswers : RegisterSettled(1, settled)
    \/ \E settled \in SaveAnswers : SaveSettled(1, settled)

SpecAnswers == Init /\ [][NextAnswers]_vars

\* one create request against downstream services that may stop answering
NextLive ==
    \/ \E body \in Bodies, uuid \in Uuids : PostSysAdmin(1, body, uuid)
    \/ \E settled \in CheckAnswers : VerifySettled(1, settled)
    \/ \E settled \in RegisterAnswers : RegisterSettled(1, settled)
    \/ \E settled \in SaveAnswers : SaveSettled(1, settled)
    \/ \E s \in Services : Silence(s)

\* a call to a service that answers does settle, and its callbacks run
Fairness ==
    /\ WF_vars(\E settled \in CheckAnswers : VerifySettled(1, settled))
    /\ WF_vars(\E settled \in RegisterAnswers : RegisterSettled(1, settled))
    /\ WF_vars(\E settled \in SaveAnswers : SaveSettled(1, settled))

SpecLive == Init /\ [][NextLive]_vars /\ Fairness

\* the service with its requests in flight together and GET /sys/health
NextHealth ==
    \/ Next
    \/ GetSysHealth

SpecHealth == Init /\ [][NextHealth]_vars

-----------------------------------------------------------------------------
(* Properties *)

\* x.k1.k2..., undefined as soon as a step is undefined or null
RECURSIVE Path(_, _)
Path(x, keys) ==
    IF keys = <<>> THEN x ELSE Path(OptGet(x, Head(keys)), Tail(keys))

\* the generic response of the error middleware
ServerError == Send(<<"500">>, <<"Server Error">>)

\* the downstream calls of request c that change downstream state
RegisterCalls(c) == SelectSeq(c.calls, LAMBDA call : call.url = registerTenantUserURL)
SaveCalls(c) == SelectSeq(c.calls, LAMBDA call : call.url = tenantURL)

\* the existence check of c was answered with success and the requested userName
FoundSameUser(c) ==
    /\ c.checked.state = "fulfilled"
    /\ Path(c.checked.value, <<"data", "userName">>) = Get(c.body, "userName")

\* the existence check of c was answered with the "User not found" error body
FoundNoUser(c) ==
    /\ c.checked.state = "rejected"
    /\ Path(c.checked.reason.response, <<"data", "Error">>) = Str(<<"User not found">>)

\* C1: a create request whose existence check is answered with success and
\* the requested userName is answered 400 with {error: "Admin user <userName>
\* already exists"}.
C1_ConflictIsSurfaced ==
    \A r \in CreateReqs :
        FoundSameUser(create[r]) =>
            create[r].sent =
                <<Json(<<"400">>, <<"Admin user ">> \o ToText(Get(create[r].body, "userName"))
                                  \o <<" already exists">>)>>

\* C2: a create request whose existence check finds the requested userName
\* issues neither the registration call nor the persistence call: its only
\* downstream call is the existence check.
C2_NoCallsAfterConflict ==
    \A r \in CreateReqs :
        FoundSameUser(create[r]) =>
            /\ RegisterCalls(create[r]) = <<>>
            /\ SaveCalls(create[r]) = <<>>
            /\ create[r].calls = <<Call("GET", PoolUrl(create[r].body), Undef)>>

C2_Witness ==
    \E r \in CreateReqs : FoundSameUser(create[r]) /\ create[r].pc = "done"

-----------------------------------------------------------------------------

\* the infrastructure fields of the tenant record and where the registration
\* response carries them
InfraPaths ==
    [UserPoolId |-> <<"data", "pool", "UserPool", "Id">>,
     IdentityPoolId |-> <<"data", "identityPool", "IdentityPoolId">>,
     systemAdminRole |-> <<"data", "role", "systemAdminRole">>,
     systemSupportRole |-> <<"data", "role", "systemSupportRole">>,
     trustRole |-> <<"data", "role", "trustRole">>,
     systemAdminPolicy |-> <<"data", "policy", "systemAdminPolicy">>,
     systemSupportPolicy |-> <<"data", "policy", "systemSupportPolicy">>]

\* the nested objects the registration callback reads fields of
NestedPaths ==
    {<<"data">>, <<"data", "pool">>, <<"data", "pool", "UserPool">>,
     <<"data", "identityPool">>, <<"data", "role">>, <<"data", "policy">>}

\* the registration response res supplies every infrastructure field
SuppliesAllFields(res) ==
    \A k \in DOMAIN InfraPaths : ~Nullish(Path(res, InfraPaths[k]))

\* the registration response res supplies every nested object (neither
\* undefined nor null)
SuppliesNested(res) ==
    \A path \in NestedPaths : ~Nullish(Path(res, path))

\* the registration call of c was answered with success
RegistrationAnswered(c) == c.registered.state = "fulfilled"

EndedWithServerError(c, prefix, n) ==
    /\ c.pc = "done"
    /\ c.sent = <<ServerError>>
    /\ c.log # <<>>
    /\ c.log[Len(c.log)].level = "error"
    /\ SubSeq(c.log[Len(c.log)].text, 1, 3) = <<"Error", ": ", prefix>>
    /\ Len(c.calls) = n

\* C4: when registration succeeded and the persistence call fails, the
\* request ends with the generic 500 response (the logged error is the
\* persistence failure), and its downstream calls are exactly the existence
\* check, the registration call and one persistence call: no rollback call,
\* no retry.
C4_SaveFailureIsNotCompensated ==
    \A r \in CreateReqs :
        create[r].saved.state = "rejected" =>
            /\ EndedWithServerError(create[r], "Failed to save tenant data.  Error: ", 3)
            /\ create[r].calls[1].method = "GET"
            /\ RegisterCalls(create[r]) = <<create[r].calls[2]>>
            /\ SaveCalls(create[r]) = <<create[r].calls[3]>>
            /\ \A i \in 1..Len(create[r].calls) : create[r].calls[i].method # "DELETE"

C4_Witness ==
    \E r \in CreateReqs :
        create[r].saved.state = "rejected" /\ RegistrationAnswered(create[r])

\* C5: when the existence check is answered with the "User not found" error
\* body, the check raises nothing (nothing is sent, no error is logged for
\* it) and the registration call is the next downstream call.
C5_NotFoundProceedsToRegistration ==
    \A r \in CreateReqs :
        FoundNoUser(create[r]) =>
            /\ create[r].pc \in {"register", "save", "done"}
            /\ Len(create[r].calls) >= 2
            /\ create[r].calls[2] =
                   Call("POST", registerTenantUserURL,
                        RegisterBody(Set(create[r].body, "id", Get(create[r].tenant, "id"))))
            /\ create[r].pc = "register" => create[r].sent = <<>>
            /\ \A i \in 1..Len(create[r].log) :
                   create[r].log[i].text[1] # "Error"
                   \/ create[r].log[i].text[3] # "Failed to check if tenant "

C5_Witness ==
    \E r \in CreateReqs : FoundNoUser(create[r]) /\ create[r].pc = "register"

\* the existence check of c failed: an error other than "User not found"
CheckFailed(c) == c.checked.state = "rejected" /\ ~FoundNoUser(c)

\* C6: when the existence check fails with another error body or with no
\* response, the request ends with the generic 500 response and issues
\* neither the registration call nor the persistence call.
C6_CheckFailureIsServerError ==
    \A r \in CreateReqs :
        CheckFailed(create[r]) =>
            /\ EndedWithServerError(create[r], "Failed to check if tenant ", 1)
            /\ RegisterCalls(create[r]) = <<>>
            /\ SaveCalls(create[r]) = <<>>

\* both kinds of failure: an error body, and no response
C6_Witness ==
    /\ \E r \in CreateReqs :
          /\ CheckFailed(create[r])
          /\ Truthy(Path(create[r].checked.reason.response, <<"data">>))
    /\ \E r \in CreateReqs :
          /\ CheckFailed(create[r])
          /\ create[r].checked.reason.response = Undef

-----------------------------------------------------------------------------

\* the registration response res has one of pool, identityPool, role, policy
\* missing or not an object
NestedMissingOrMalformed(res) ==
    \E k \in {"pool", "identityPool", "role", "policy"} :
        Path(res, <<"data", k>>).t # "object"

\* the request c has ended with the generic 500 response for a failed
\* registration, without a persistence call
EndedRegistrationFailed(c) ==
    /\ EndedWithServerError(c, "Error registering new system admin user: ", 2)
    /\ SaveCalls(c) = <<>>

RequestFields ==
    {"companyName", "accountName", "ownerName", "tier", "email", "userName",
     "role", "firstName", "lastName"}

\* the request fields that saveTenantData copies into the record
SavedRequestFields ==
    {"companyName", "accountName", "ownerName", "tier", "email", "userName"}

\* the record b carries the values mapped from the registration response of
\* c, the generated id and the status "Active"
CarriesMappedValues(c, b) ==
    /\ \A k \in DOMAIN InfraPaths : Get(b, k) = Path(c.registered.value, InfraPaths[k])
    /\ Get(b, "id") = Str(StripHyphens(<<"SYSADMIN">> \o c.uuid))
    /\ Get(b, "id") = Get(c.calls[2].body, "tenant_id")
    /\ Get(b, "status") = Str(<<"Active">>)

Removed == Send(<<"200">>, <<"System Infrastructure & Tables removed">>)

\* C9: whatever the infrastructure deletion settles with, DELETE /sys/admin
\* answers 200; a failed deletion is logged at level info and nothing else
\* shows it.
C9_DestroyAlwaysSucceeds ==
    \A d \in DestroyReqs :
        destroy[d].pc = "done" =>
            /\ destroy[d].sent = <<Removed>>
            /\ \A i \in 1..Len(destroy[d].log) : destroy[d].log[i].level # "error"
            /\ destroy[d].deleted.state = "rejected" =>
                   destroy[d].log[1] =
                       LogEntry("info", <<"Error Removing Infrastructure: ">>
                                        \o destroy[d].deleted.reason.message)

C9_Witness ==
    \E d \in DestroyReqs :
        destroy[d].pc = "done" /\ destroy[d].deleted.state = "rejected"

\* C10: no request issues DELETE {userBase}/tables; the only downstream call
\* of DELETE /sys/admin is the infrastructure deletion, and the request still
\* ends with 200.
C10_TablesNeverDeleted ==
    /\ \A r \in CreateReqs : \A i \in 1..Len(create[r].calls) :
           create[r].calls[i].url # deleteTableUrl
    /\ \A d \in DestroyReqs :
           /\ \A i \in 1..Len(destroy[d].calls) :
                  destroy[d].calls[i] = Call("DELETE", deleteInfraUrl, Undef)
           /\ Len(destroy[d].calls) <= 1
           /\ destroy[d].pc = "done" =>
                  Len(destroy[d].calls) = 1 /\ destroy[d].sent[1].status = <<"200">>

C10_Witness ==
    \E d \in DestroyReqs :
        destroy[d].pc = "done" /\ destroy[d].deleted.state = "fulfilled"

-----------------------------------------------------------------------------

\* C11: every create request that has arrived is eventually sent a response,
\* also when a downstream service never answers its call.
C11_EveryCreateRequestIsAnswered ==
    \A r \in CreateReqs : (create[r].pc # "idle") ~> (create[r].sent # <<>>)

-----------------------------------------------------------------------------

\* the requests r and o have arrived with the same userName
SameUser(r, o) ==
    /\ create[r].pc # "idle"
    /\ create[o].pc # "idle"
    /\ Get(create[r].body, "userName") = Get(create[o].body, "userName")

\* C12: create requests for the same userName are not coordinated: while
\* another request for the same userName awaits its existence check or has
\* its registration call in flight, the existence check of a request can
\* still pass and issue a second registration call.
C12_SameUserIsNotCoordinated ==
    \A r, o \in CreateReqs :
        (/\ r # o
         /\ SameUser(r, o)
         /\ create[r].pc = "verify"
         /\ create[o].pc \in {"verify", "register"})
        => ENABLED (\E settled \in CheckAnswers :
                        /\ VerifySettled(r, settled)
                        /\ create'[r].pc = "register"
                        /\ RegisterCalls(create'[r]) # <<>>)

\* both existence checks passed before either registration completed, and
\* both requests issued a registration call
C12_Witness ==
    \E r, o \in CreateReqs :
        /\ r # o
        /\ SameUser(r, o)
        /\ create[r].pc = "register" /\ create[o].pc = "register"
        /\ create[r].registered = Pending /\ create[o].registered = Pending
        /\ RegisterCalls(create[r]) # <<>> /\ RegisterCalls(create[o]) # <<>>

-----------------------------------------------------------------------------

\* the identifier generated for request c
OwnId(c) == Str(StripHyphens(<<"SYSADMIN">> \o c.uuid))

\* the downstream calls and the response of request c are those of its own
\* body, its own identifier and the answers to its own calls
OwnData(c) ==
    /\ Len(c.calls) <= 3
    /\ Len(c.calls) >= 1 => c.calls[1] = Call("GET", PoolUrl(c.body), Undef)
    /\ Len(c.calls) >= 2 =>
           c.calls[2] = Call("POST", registerTenantUserURL,
                             RegisterBody(Set(c.body, "id", OwnId(c))))
    /\ Len(c.calls) >= 3 =>
           /\ c.calls[3].method = "POST"
           /\ c.calls[3].url = tenantURL
           /\ CarriesMappedValues(c, c.calls[3].body)
           /\ \A k \in SavedRequestFields : Get(c.calls[3].body, k) = Get(c.body, k)
    /\ c.sent # <<>> =>
           IF c.saved.state = "fulfilled"
           THEN c.sent = <<Send(<<"200">>, <<"System admin user ">> \o ToText(OwnId(c))
                                           \o <<" registered">>)>>
           ELSE c.sent[1].status # <<"200">>

\* a step of one request leaves every other request as it is
OthersUnchanged ==
    /\ \A r \in CreateReqs :
           create'[r] # create[r] =>
               /\ \A o \in CreateReqs \ {r} : create'[o] = create[o]
               /\ destroy' = destroy
    /\ \A d \in DestroyReqs :
           destroy'[d] # destroy[d] =>
               /\ \A o \in DestroyReqs \ {d} : destroy'[o] = destroy[o]
               /\ create' = create

\* C13: create requests proceed independently: under every interleaving the
\* downstream calls a request issues and the response it is sent are those of
\* its own body, identifier and answers, and a step of one request changes
\* no other request.
C13_RequestsAreIndependent ==
    /\ [](\A r \in CreateReqs : OwnData(create[r]))
    /\ [][OthersUnchanged]_vars

\* two requests for different userNames, in flight together, that ended
\* differently
C13_Witness ==
    \E r, o \in CreateReqs :
        /\ create[r].pc = "done" /\ create[o].pc = "done"
        /\ Get(create[r].body, "userName") # Get(create[o].body, "userName")
        /\ create[r].saved.state = "fulfilled"
        /\ create[o].registered.state = "rejected"
        /\ create[r].sent[1].status = <<"200">>
        /\ create[o].sent[1].status = <<"500">>

-----------------------------------------------------------------------------

\* the identifier of request r, as the tenant object carries it
IdOf(r) == Get(create[r].tenant, "id")

\* the identifier of request r starts with SYSADMIN and has no hyphen
WellFormedId(r) ==
    /\ IdOf(r).t = "string"
    /\ IdOf(r).v # <<>>
    /\ Head(IdOf(r).v) = "SYSADMIN"
    /\ \A i \in 1..Len(IdOf(r).v) : IdOf(r).v[i] # "-"

\* C14 as claimed: every generated identifier starts with SYSADMIN, has no
\* hyphen and differs from the identifier of every other create request.
C14_IdsAreUnique ==
    \A r \in CreateReqs :
        create[r].pc # "idle" =>
            /\ WellFormedId(r)
            /\ \A o \in CreateReqs \ {r} : create[o].pc # "idle" => IdOf(r) # IdOf(o)

\* C14: every generated identifier starts with SYSADMIN and has no hyphen,
\* and the identifiers of two create requests differ exactly when uuidV4()
\* returned different values for them; the service itself does nothing to
\* keep two identifiers apart.
C14_IdsFollowUuids ==
    \A r \in CreateReqs :
        create[r].pc # "idle" =>
            /\ WellFormedId(r)
            /\ \A o \in CreateReqs \ {r} :
                   create[o].pc # "idle" =>
                       (IdOf(r) = IdOf(o) <=> create[r].uuid = create[o].uuid)

\* two requests in flight together with different identifiers
C14_Witness ==
    \E r, o \in CreateReqs :
        /\ create[r].pc \in {"verify", "register", "save"}
        /\ create[o].pc \in {"verify", "register", "save"}
        /\ create[r].uuid # create[o].uuid
        /\ IdOf(r) # IdOf(o)

-----------------------------------------------------------------------------

IsAlive ==
    SendObject(<<"200">>,
               Obj([service |-> Str(<<"System Registration">>), isAlive |-> True]))

\* C15: in every reachable state GET /sys/health can be answered, every
\* answer it has given is 200 with {service, isAlive: true}, whatever the
\* create and destroy requests in flight or failed, and it has issued no
\* downstream call.
C15_HealthIsAlwaysAlive ==
    /\ ENABLED GetSysHealth
    /\ health.sent \in {<<>>, <<IsAlive>>}
    /\ health.calls = <<>>

\* the health check answered after a create request failed, with another
\* request still in flight
C15_Witness ==
    /\ health.sent = <<IsAlive>>
    /\ \E r \in CreateReqs : create[r].pc = "done" /\ create[r].sent = <<ServerError>>
    /\ \/ \E r \in CreateReqs : create[r].pc \in {"verify", "register", "save"}
       \/ \E d \in DestroyReqs : destroy[d].pc \notin {"idle", "done"}

-----------------------------------------------------------------------------

\* the existence check of c was answered and let the workflow go on
CheckPassed(c) ==
    \/ FoundNoUser(c)
    \/ /\ c.checked.state = "fulfilled"
       /\ ~Nullish(Get(c.checked.value, "data"))
       /\ ~FoundSameUser(c)

\* the downstream calls of c that have been answered
Settled(c) ==
    Cardinality({k \in {"checked", "registered", "saved"} : c[k].state # "pending"})

\* the calls of c are the existence check, the registration and the
\* persistence in that order, each issued after the one before it succeeded,
\* and at most one of them is unanswered
Sequential(c) ==
    LET n == Len(c.calls) IN
    /\ n <= 3
    /\ n >= 1 => c.calls[1].method = "GET" /\ c.calls[1].url = PoolUrl(c.body)
    /\ n >= 2 => c.calls[2].method = "POST" /\ c.calls[2].url = registerTenantUserURL
                 /\ CheckPassed(c)
    /\ n >= 3 => c.calls[3].method = "POST" /\ c.calls[3].url = tenantURL
                 /\ c.registered.state = "fulfilled"
    /\ c.checked.state # "pending" => n >= 1
    /\ c.registered.state # "pending" => n >= 2
    /\ c.saved.state # "pending" => n >= 3
    /\ n - Settled(c) \in {0, 1}
    /\ c.pc = "done" => n = Settled(c)

\* a step issues at most one call of a request, and only when every call the
\* request had issued has been answered
OneCallAtATime ==
    \A r \in CreateReqs :
        \/ create'[r].calls = create[r].calls
        \/ \E call \in {create'[r].calls[Len(create'[r].calls)]} :
               /\ create'[r].calls = Append(create[r].calls, call)
               /\ Settled(create'[r]) = Len(create[r].calls)

\* C16: the calls of a create request are issued in the order existence
\* check, registration, persistence, each only after the one before it
\* succeeded, each at most once, and never two of them in flight together.
C16_CallsAreSequential ==
    /\ [](\A r \in CreateReqs : Sequential(create[r]))
    /\ [][OneCallAtATime]_vars

\* a request that has issued all three calls, the last one still in flight
C16_Witness ==
    \E r \in CreateReqs :
        /\ create[r].pc = "save"
        /\ Len(create[r].calls) = 3
        /\ create[r].saved.state = "pending"
        /\ FoundNoUser(create[r])

-----------------------------------------------------------------------------

\* request c has been sent the 200 success response
Succeeded(c) == c.sent # <<>> /\ c.sent[1].status = <<"200">>

\* the tenant id named in the response text "System admin user <id> registered"
NamedId(c) == Str(SubSeq(c.sent[1].text, 2, Len(c.sent[1].text) - 1))

\* C17: a create request is sent 200 only if its existence check passed and
\* its registration and persistence calls succeeded, and the id the response
\* names is the tenant_id of its registration call and the id of its
\* persistence call.
C17_SuccessNamesTheOneId ==
    \A r \in CreateReqs :
        LET c == create[r] IN
        Succeeded(c) =>
            /\ CheckPassed(c)
            /\ c.registered.state = "fulfilled"
            /\ c.saved.state = "fulfilled"
            /\ Len(c.calls) = 3
            /\ Head(c.sent[1].text) = "System admin user "
            /\ c.sent[1].text[Len(c.sent[1].text)] = " registered"
            /\ NamedId(c) = OwnId(c)
            /\ Get(c.calls[2].body, "tenant_id") = NamedId(c)
            /\ Get(c.calls[3].body, "id") = NamedId(c)

\* a request answered 200 while another request, with another id, has failed
C17_Witness ==
    \E r, o \in CreateReqs :
        /\ Succeeded(create[r])
        /\ create[o].sent = <<ServerError>>
        /\ create[r].uuid # create[o].uuid

-----------------------------------------------------------------------------

\* request c, with its status codes among allowed, has been sent exactly one
\* response if all its calls are answered and the chain has run, none before
OneResponse(c, allowed) ==
    /\ Len(c.sent) <= 1
    /\ c.pc = "done" <=> Len(c.sent) = 1
    /\ \A i \in 1..Len(c.sent) : c.sent[i].status \in allowed

\* a response that was sent is never followed or replaced by another one
ResponsesStay ==
    /\ \A r \in CreateReqs : create[r].sent # <<>> => create'[r].sent = create[r].sent
    /\ \A d \in DestroyReqs : destroy[d].sent # <<>> => destroy'[d].sent = destroy[d].sent

\* C18: a create or destroy request whose downstream calls have all been
\* answered has been sent exactly one response, with status 200, 400 or 500
\* for a create request and 200 or 400 for a destroy request, and no second
\* response is ever sent.
C18_ExactlyOneResponse ==
    /\ [](\A r \in CreateReqs :
              OneResponse(create[r], {<<"200">>, <<"400">>, <<"500">>}))
    /\ [](\A d \in DestroyReqs : OneResponse(destroy[d], {<<"200">>, <<"400">>}))
    /\ [][ResponsesStay]_vars

\* every request has ended: one create with 200, one with 500, and the
\* destroy, whose deletion failed, with its one response
C18_Witness ==
    /\ \E r, o \in CreateReqs :
           /\ create[r].sent # <<>> /\ create[r].sent[1].status = <<"200">>
           /\ create[o].sent # <<>> /\ create[o].sent[1].status = <<"500">>
    /\ \E d \in DestroyReqs :
           /\ destroy[d].pc = "done" /\ destroy[d].deleted.state = "rejected"
           /\ Len(destroy[d].sent) = 1

-----------------------------------------------------------------------------

\* the existence check of c was answered with success and the userName of
\* another user
FoundOtherUser(c) ==
    /\ c.checked.state = "fulfilled"
    /\ Path(c.checked.value, <<"data", "userName">>).t = "string"
    /\ Path(c.checked.value, <<"data", "userName">>) # Get(c.body, "userName")

\* the log of c reports a failed existence check
LoggedCheckFailure(c) ==
    \E i \in 1..Len(c.log) :
        /\ c.log[i].level = "error"
        /\ Len(c.log[i].text) >= 3
        /\ c.log[i].text[3] = "Failed to check if tenant "

\* C19: a create request whose existence check is answered with success and
\* a userName other than the requested one meets no conflict and no error of
\* the check, and its registration call is issued.
C19_OtherUserProceedsToRegistration ==
    \A r \in CreateReqs :
        LET c == create[r] IN
        FoundOtherUser(c) =>
            /\ c.pc \in {"register", "save", "done"}
            /\ Len(c.calls) >= 2
            /\ c.calls[2] = Call("POST", registerTenantUserURL,
                                 RegisterBody(Set(c.body, "id", OwnId(c))))
            /\ \A i \in 1..Len(c.sent) : c.sent[i].status # <<"400">>
            /\ ~LoggedCheckFailure(c)
            /\ c.pc = "register" => c.sent = <<>>

\* a request found another user and waits for its registration, while the
\* other request found its own userName taken
C19_Witness ==
    \E r, o \in CreateReqs :
        /\ FoundOtherUser(create[r])
        /\ create[r].pc = "register"
        /\ create[r].registered.state = "pending"
        /\ FoundSameUser(create[o])

====
